---------------------------- MODULE Spec2Model ----------------------------
(***************************************************************************)
(* Model of cloud/__init__.py: the Azure VM price lookup.                  *)
(*                                                                         *)
(*   get_price(region, vm_name)          the orchestrator                  *)
(*   get_azure_vm_price(region, vm_name) fetch + reduce the line-items     *)
(*   get_dbu_prices / from_vm_info       per-DBU prices for three tiers    *)
(*                                                                         *)
(* Number representation.  Python's Decimal values quantized with          *)
(* Decimal('1e-4') are integers counting 1e-4 currency units.  A retail    *)
(* price (a JSON number) is an integer counting 1e-5 units, so that        *)
(* quantizing it is a real rounding.  dbu_per_hr is a count of quarter     *)
(* DBUs and a Photon multiplier a count of tenths; a quotient is rounded   *)
(* from the exact rational (ROUND_HALF_EVEN, the decimal context's         *)
(* default).  The binary representation error of a float (2.3 is stored    *)
(* about 1.8e-16 below 2.3) is below this resolution: it can only decide   *)
(* a quotient that is an exact tie.                                        *)
(*                                                                         *)
(* An Optional value is the empty tuple (None) or a one-element tuple.     *)
(* Strings are kept as strings in the state; lower() and the `in` test     *)
(* work on their characters (Chars).                                       *)
(***************************************************************************)
EXTENDS Integers, Sequences, FiniteSets, TLC

VARIABLES
    pc,         \* position of the running call
    caller,     \* entry point of the running call: "get_price" or "get_azure_vm_price"
    region,     \* argument region
    vm_name,    \* argument vm_name
    fetches,    \* HTTP GETs issued by the running call
    items,      \* response.json()['Items']
    idx,        \* position of the for loop over the items (1-based)
    vm_price,   \* the VMPrice under construction in get_azure_vm_price
    price,      \* return value of get_azure_vm_price: None or <<VMPrice>>
    vm_info,    \* the VMInfo built by get_price: None or <<VMInfo>>
    result      \* outcome of the call: [kind, value]

vars == <<pc, caller, region, vm_name, fetches, items, idx, vm_price, price, vm_info, result>>

-----------------------------------------------------------------------------
(* Bounds *)

\* longest Items array of a response to a direct get_azure_vm_price call
MaxItems == 2
\* longest Items array of a response inside get_price
MaxLookupItems == 4

-----------------------------------------------------------------------------
(* Optional values *)

None == <<>>
Some(v) == <<v>>

-----------------------------------------------------------------------------
(* Strings: characters, lower(), substring test *)

Chars(s) ==
    CASE s = "" -> <<>>
      [] s = "Dv3 Series" -> <<"D","v","3"," ","S","e","r","i","e","s">>
      [] s = "Dv3 Series Windows" ->
            <<"D","v","3"," ","S","e","r","i","e","s"," ","W","i","n","d","o","w","s">>
      [] s = "D4 v3" -> <<"D","4"," ","v","3">>
      [] s = "D4 v3 Spot" -> <<"D","4"," ","v","3"," ","S","p","o","t">>
      [] s = "D4 v3 Low Priority" ->
            <<"D","4"," ","v","3"," ","L","o","w"," ","P","r","i","o","r","i","t","y">>
      [] s = "1 Year" -> <<"1"," ","Y","e","a","r">>
      [] s = "3 Years" -> <<"3"," ","Y","e","a","r","s">>
      [] s = "windows" -> <<"w","i","n","d","o","w","s">>
      [] s = "low priority" -> <<"l","o","w"," ","p","r","i","o","r","i","t","y">>
      [] s = "spot" -> <<"s","p","o","t">>
      [] s = "1 year" -> <<"1"," ","y","e","a","r">>
      [] s = "3 years" -> <<"3"," ","y","e","a","r","s">>

LowerChar(c) ==
    CASE c = "D" -> "d"
      [] c = "S" -> "s"
      [] c = "W" -> "w"
      [] c = "L" -> "l"
      [] c = "P" -> "p"
      [] c = "Y" -> "y"
      [] OTHER -> c

\* str.lower(), on the characters of s
Lower(s) == [k \in 1..Len(Chars(s)) |-> LowerChar(Chars(s)[k])]

\* `sub in cs` for a character sequence cs
Contains(sub, cs) ==
    \E k \in 1..(Len(cs) - Len(Chars(sub)) + 1) :
        SubSeq(cs, k, k + Len(Chars(sub)) - 1) = Chars(sub)

-----------------------------------------------------------------------------
(* Decimal arithmetic *)

\* (num / den) rounded to an integer, ROUND_HALF_EVEN; num >= 0, den > 0
Quantize(num, den) ==
    LET q == num \div den
        r == num % den
    IN  IF 2 * r < den THEN q
        ELSE IF 2 * r > den THEN q + 1
        ELSE IF q % 2 = 0 THEN q ELSE q + 1

\* retail prices count 1e-5 units, quantized prices 1e-4 units
RetailPerQuantum == 10
\* dbu_per_hr counts quarter DBUs, a multiplier counts tenths
DbuScale == 40

hrs_per_year == 8760
hrs_per_three_years == hrs_per_year * 3

-----------------------------------------------------------------------------
(* Catalogs (regions.json, azure.json) *)

all_regions == [azure |-> {"eastus2", "westus"}]

azure_vms ==
    [n \in {"Standard_D4_v3", "Standard_D8_v3"} |->
        IF n = "Standard_D4_v3"
        THEN [dbu_per_hr |-> 3, cpu_cores |-> 4, memory |-> 16]
        ELSE [dbu_per_hr |-> 8, cpu_cores |-> 8, memory |-> 32]]

\* arguments a caller may pass to get_price
RegionArgs == {"eastus2", "westus", "not-a-real-region"}
NameArgs == {"Standard_D4_v3", "Standard_D8_v3", "nonexistent-vm-name"}
\* arguments of a direct get_azure_vm_price call (they only select the URL)
DirectArgs == {<<"westus", "Standard_D4_v3">>}

-----------------------------------------------------------------------------
(* Line-items of the pricing API *)

ProductNames == {"Dv3 Series", "Dv3 Series Windows"}
SkuNames == {"D4 v3", "D4 v3 Spot", "D4 v3 Low Priority"}
ReservationTerms == {None, Some("1 Year"), Some("3 Years")}
\* (currencyCode, retailPrice): 0.09375 is an hourly rate and a rounding tie,
\* 1000.00 a reservation's lump sum
Quotes == {<<"USD", 9375>>, <<"USD", 100000000>>, <<"EUR", 100000000>>}

LineItems ==
    {[productName |-> p, skuName |-> s, reservationTerm |-> t,
      currencyCode |-> q[1], retailPrice |-> q[2]] :
        p \in ProductNames, s \in SkuNames, t \in ReservationTerms, q \in Quotes}

\* line-items of the responses inside get_price: Linux, not low priority, USD,
\* a lump sum on the reservations and an hourly rate on the others
LookupItems ==
    {i \in LineItems :
        /\ i.productName = "Dv3 Series"
        /\ i.skuName # "D4 v3 Low Priority"
        /\ i.currencyCode = "USD"
        /\ i.retailPrice = (IF i.reservationTerm = None THEN 9375 ELSE 100000000)}

SeqsUpTo(S, n) == UNION {[1..k -> S] : k \in 0..n}

Responses(c) ==
    IF c = "get_price" THEN SeqsUpTo(LookupItems, MaxLookupItems)
                       ELSE SeqsUpTo(LineItems, MaxItems)


-----------------------------------------------------------------------------
(* get_azure_vm_price: the reduction of the line-items *)

\* the VMPrice constructed before the loop
InitialVMPrice ==
    [currency_type |-> Some("USD"),
     one_yr_res_per_hr |-> None,
     three_yr_res_per_hr |-> None,
     spot_price_per_hr |-> None,
     price_per_hr |-> None,
     region |-> "eastus2"]

\* i.get("reservationTerm", "").lower()
TermLower(i) ==
    IF i.reservationTerm = None THEN Lower("") ELSE Lower(i.reservationTerm[1])

\* the test without the two lower() calls
IsFilteredCaseSensitive(i) ==
    \/ Contains("windows", Chars(i.productName))
    \/ Contains("low priority", Chars(i.skuName))

\* the `continue` test of the loop
IsFiltered(i) ==
    \/ Contains("windows", Lower(i.productName))
    \/ Contains("low priority", Lower(i.skuName))

\* the chain with the spot test moved to the front
ClassifySpotFirst(i) ==
    IF Contains("spot", Lower(i.skuName)) THEN "spot_price_per_hr"
    ELSE IF TermLower(i) = Chars("1 year") THEN "one_yr_res_per_hr"
    ELSE IF TermLower(i) = Chars("3 years") THEN "three_yr_res_per_hr"
    ELSE "price_per_hr"

\* which branch of the if/elif chain an item takes
Classify(i) ==
    IF TermLower(i) = Chars("1 year") THEN "one_yr_res_per_hr"
    ELSE IF TermLower(i) = Chars("3 years") THEN "three_yr_res_per_hr"
    ELSE IF Contains("spot", Lower(i.skuName)) THEN "spot_price_per_hr"
    ELSE "price_per_hr"

\* the value the branch assigns
HourlyValue(i) ==
    CASE Classify(i) = "one_yr_res_per_hr" ->
            Quantize(i.retailPrice, RetailPerQuantum * hrs_per_year)
      [] Classify(i) = "three_yr_res_per_hr" ->
            Quantize(i.retailPrice, RetailPerQuantum * hrs_per_three_years)
      [] OTHER -> Quantize(i.retailPrice, RetailPerQuantum)

\* one iteration of the loop body
ProcessItem(vp, i) ==
    IF IsFiltered(i) THEN vp
    ELSE [vp EXCEPT ![Classify(i)] = Some(HourlyValue(i)),
                    !.currency_type = Some(i.currencyCode)]

\* the test widened to "no facet at all"
NoFacetPresent(vp) ==
    /\ vp.price_per_hr = None
    /\ vp.spot_price_per_hr = None
    /\ vp.one_yr_res_per_hr = None
    /\ vp.three_yr_res_per_hr = None

\* the test before the two return statements
IsUnavailable(vp) == vp.price_per_hr = None

\* the loop run over a whole sequence, from vp
RECURSIVE Reduce(_, _)
Reduce(vp, its) ==
    IF its = <<>> THEN vp ELSE Reduce(ProcessItem(vp, Head(its)), Tail(its))

\* the return value of get_azure_vm_price when the response holds its
Normalized(its) ==
    LET vp == Reduce(InitialVMPrice, its)
    IN  IF IsUnavailable(vp) THEN None ELSE Some(vp)

-----------------------------------------------------------------------------
(* VMPricePerDBU.from_vm_info and get_dbu_prices *)

job_dbu_multiplier == 25
interactive_dbu_multiplier == 23
default_multiplier == 10

Outcome(k, v) == [kind |-> k, value |-> v]

\* (facet / dbus).quantize(Decimal('1e-4')), or the exception it raises
DivideFacet(facet, dbu_per_hr, multiplier) ==
    IF facet = None THEN Outcome("TypeError", None)
    ELSE IF dbu_per_hr * multiplier = 0
         THEN Outcome(IF facet[1] = 0 THEN "InvalidOperation" ELSE "DivisionByZero", None)
    ELSE Outcome("value", Some(Quantize(facet[1] * DbuScale, dbu_per_hr * multiplier)))

\* the keyword arguments are evaluated in order; the first exception wins
from_vm_info(vi, sku, multiplier) ==
    IF vi.price = None THEN Outcome("AttributeError", None)
    ELSE
    LET p == vi.price[1]
        one == DivideFacet(p.one_yr_res_per_hr, vi.dbu_per_hr, multiplier)
        three == DivideFacet(p.three_yr_res_per_hr, vi.dbu_per_hr, multiplier)
        spot == DivideFacet(p.spot_price_per_hr, vi.dbu_per_hr, multiplier)
        od == DivideFacet(p.price_per_hr, vi.dbu_per_hr, multiplier)
    IN  IF one.kind # "value" THEN one
        ELSE IF three.kind # "value" THEN three
        ELSE IF spot.kind # "value" THEN spot
        ELSE IF od.kind # "value" THEN od
        ELSE Outcome("value",
                Some([currency_type |-> p.currency_type,
                      one_yr_res_per_dbu |-> one.value,
                      three_yr_res_per_dbu |-> three.value,
                      spot_price_per_dbu |-> spot.value,
                      price_per_dbu |-> od.value,
                      region |-> p.region,
                      sku |-> sku]))

\* the list with the two Photon entries exchanged
get_dbu_prices_jobs_first(vi) ==
    LET base == from_vm_info(vi, "PhotonSku.NO_PHOTON", default_multiplier)
        inter == from_vm_info(vi, "PhotonSku.PHOTON_INTERACTIVE", interactive_dbu_multiplier)
        jobs == from_vm_info(vi, "PhotonSku.PHOTON_JOBS", job_dbu_multiplier)
    IN  IF base.kind # "value" THEN base
        ELSE IF jobs.kind # "value" THEN jobs
        ELSE IF inter.kind # "value" THEN inter
        ELSE Outcome("value", Some(<<base.value[1], jobs.value[1], inter.value[1]>>))

\* the list literal: three calls in order, the first exception wins
get_dbu_prices(vi) ==
    LET base == from_vm_info(vi, "PhotonSku.NO_PHOTON", default_multiplier)
        inter == from_vm_info(vi, "PhotonSku.PHOTON_INTERACTIVE", interactive_dbu_multiplier)
        jobs == from_vm_info(vi, "PhotonSku.PHOTON_JOBS", job_dbu_multiplier)
    IN  IF base.kind # "value" THEN base
        ELSE IF inter.kind # "value" THEN inter
        ELSE IF jobs.kind # "value" THEN jobs
        ELSE Outcome("value", Some(<<base.value[1], inter.value[1], jobs.value[1]>>))

-----------------------------------------------------------------------------
(* get_price: the tests *)

\* the assert reduced to a truthiness test
RegionIsNonEmpty(r) == r # ""

\* the assert made against every region name a caller uses
RegionIsKnownSomewhere(r) == r \in RegionArgs

\* the assert on the region
RegionIsValid(r) == r \in all_regions["azure"]

\* the membership test reduced to a truthiness test
NameIsNonEmpty(n) == n # ""

\* `vm_name in azure_vms`
InCatalog(n) == n \in DOMAIN azure_vms

-----------------------------------------------------------------------------
(* The state machine *)

NoResult == Outcome("running", None)

Init ==
    /\ pc = "idle"
    /\ caller = "none"
    /\ region = "eastus2"
    /\ vm_name = "Standard_D4_v3"
    /\ fetches = 0
    /\ items = <<>>
    /\ idx = 1
    /\ vm_price = InitialVMPrice
    /\ price = None
    /\ vm_info = None
    /\ result = NoResult

\* a caller enters f with (r, n); nothing of an earlier call survives
Enter(f, r, n, start) ==
    /\ pc \in {"idle", "done"}
    /\ pc' = start
    /\ caller' = f
    /\ region' = r
    /\ vm_name' = n
    /\ fetches' = 0
    /\ items' = <<>>
    /\ idx' = 1
    /\ vm_price' = InitialVMPrice
    /\ price' = None
    /\ vm_info' = None
    /\ result' = NoResult

\* get_price is called; both catalogs are loaded
CallGetPrice ==
    \E r \in RegionArgs, n \in NameArgs : Enter("get_price", r, n, "assert_region")

\* get_azure_vm_price is called directly
CallGetAzureVmPrice ==
    \E a \in DirectArgs : Enter("get_azure_vm_price", a[1], a[2], "fetch")

\* assert (region in ...), "Not a valid region!"
AssertRegion ==
    /\ pc = "assert_region"
    /\ IF RegionIsValid(region)
       THEN /\ pc' = "check_instance"
            /\ result' = result
       ELSE /\ pc' = "done"
            /\ result' = Outcome("AssertionError", None)
    /\ UNCHANGED <<caller, region, vm_name, fetches, items, idx, vm_price, price, vm_info>>

\* if vm_name in azure_vms: ... else return None
CheckInstance ==
    /\ pc = "check_instance"
    /\ IF InCatalog(vm_name)
       THEN /\ pc' = "fetch"
            /\ result' = result
       ELSE /\ pc' = "done"
            /\ result' = Outcome("None", None)
    /\ UNCHANGED <<caller, region, vm_name, fetches, items, idx, vm_price, price, vm_info>>

\* requests.get(...), the VMPrice constructor, response.json()['Items']
Fetch ==
    /\ pc = "fetch"
    /\ \E its \in Responses(caller) : items' = its
    /\ fetches' = fetches + 1
    /\ vm_price' = InitialVMPrice
    /\ idx' = 1
    /\ pc' = "loop"
    /\ UNCHANGED <<caller, region, vm_name, price, vm_info, result>>

\* one iteration of the for loop
LoopItem ==
    /\ pc = "loop"
    /\ idx <= Len(items)
    /\ vm_price' = ProcessItem(vm_price, items[idx])
    /\ idx' = idx + 1
    /\ UNCHANGED <<pc, caller, region, vm_name, fetches, items, price, vm_info, result>>

\* the loop is exhausted: return None or vm_price
ReturnPrice ==
    /\ pc = "loop"
    /\ idx > Len(items)
    /\ price' = IF IsUnavailable(vm_price) THEN None ELSE Some(vm_price)
    /\ IF caller = "get_price"
       THEN /\ pc' = "build"
            /\ result' = result
       ELSE /\ pc' = "done"
            /\ result' = Outcome(IF price' = None THEN "None" ELSE "value", price')
    /\ UNCHANGED <<caller, region, vm_name, fetches, items, idx, vm_price, vm_info>>

\* vm_info = VMInfo(**azure_vms[vm_name], name=..., price=..., dbu_prices=[])
BuildVMInfo ==
    /\ pc = "build"
    /\ IF vm_name \in DOMAIN azure_vms
       THEN /\ vm_info' = Some([name |-> vm_name,
                                dbu_per_hr |-> azure_vms[vm_name].dbu_per_hr,
                                cpu_cores |-> azure_vms[vm_name].cpu_cores,
                                memory |-> azure_vms[vm_name].memory,
                                price |-> price,
                                dbu_prices |-> <<>>])
            /\ pc' = "derive"
            /\ result' = result
       ELSE /\ vm_info' = vm_info
            /\ pc' = "done"
            /\ result' = Outcome("KeyError", None)
    /\ UNCHANGED <<caller, region, vm_name, fetches, items, idx, vm_price, price>>

\* vm_info.dbu_prices = get_dbu_prices(vm_info, azure_photon_multiplier); return vm_info
Derive ==
    /\ pc = "derive"
    /\ LET d == get_dbu_prices(vm_info[1])
       IN  IF d.kind = "value"
           THEN /\ vm_info' = Some([vm_info[1] EXCEPT !.dbu_prices = d.value[1]])
                /\ result' = Outcome("value", vm_info')
           ELSE /\ vm_info' = vm_info
                /\ result' = d
    /\ pc' = "done"
    /\ UNCHANGED <<caller, region, vm_name, fetches, items, idx, vm_price, price>>

Next ==
    \/ CallGetPrice
    \/ CallGetAzureVmPrice
    \/ AssertRegion
    \/ CheckInstance
    \/ Fetch
    \/ LoopItem
    \/ ReturnPrice
    \/ BuildVMInfo
    \/ Derive

Spec == Init /\ [][Next]_vars

-----------------------------------------------------------------------------
(* Vocabulary of the properties.  The line-items are recognised by their    *)
(* literal names, not through lower() and the substring test.               *)

\* the normalizer has returned in the running call
Normalizer_returned == fetches = 1 /\ pc \in {"build", "derive", "done"}

MentionsWindows(i) == i.productName = "Dv3 Series Windows"
MentionsLowPriority(i) == i.skuName = "D4 v3 Low Priority"
Survives(i) == ~MentionsWindows(i) /\ ~MentionsLowPriority(i)
MentionsSpot(i) == i.skuName = "D4 v3 Spot"

Facets == {"one_yr_res_per_hr", "three_yr_res_per_hr", "spot_price_per_hr", "price_per_hr"}

\* r is num/den rounded to the nearest integer
IsNearest(r, num, den) ==
    LET d == r * den - num
    IN  2 * (IF d < 0 THEN -d ELSE d) <= den

\* the step wrote round(num/den) to facet f and left the other three alone
WritesOnly(f, num, den) ==
    /\ vm_price'[f] # None
    /\ IsNearest(vm_price'[f][1], num, den)
    /\ \A g \in Facets \ {f} : vm_price'[g] = vm_price[g]

\* per-DBU facet d is hourly facet h divided by dbu_per_hr * tenths / 10
FacetDerived(h, d, dbu_per_hr, tenths) ==
    IF h = None THEN d = None
    ELSE d # None /\ IsNearest(d[1], h[1] * 40, dbu_per_hr * tenths)

-----------------------------------------------------------------------------
(* Properties *)

\* C1: with a valid region and a catalog instance, when the normalizer reports
\* "price unavailable", get_price returns None and raises nothing.
C1_UnavailableReturnsNone ==
    (/\ caller = "get_price"
     /\ pc = "done"
     /\ region \in all_regions["azure"]
     /\ vm_name \in DOMAIN azure_vms
     /\ fetches = 1
     /\ price = None)
    => result = Outcome("None", None)

\* C2: for an HourlyPrice with an on-demand price and a positive DBU rate the
\* derivation completes for every tier; an absent facet stays absent and a
\* present one is the hourly value divided by the effective DBU count, rounded
\* to 4 digits.
C2_DeriverKeepsAbsentFacets ==
    (/\ caller = "get_price"
     /\ pc = "done"
     /\ price # None
     /\ azure_vms[vm_name].dbu_per_hr > 0)
    => /\ result.kind = "value"
       /\ LET v == result.value[1]
              h == v.price[1]
              tenths == <<10, 23, 25>>
          IN  /\ Len(v.dbu_prices) = 3
              /\ \A k \in 1..3 :
                    /\ FacetDerived(h.one_yr_res_per_hr,
                                    v.dbu_prices[k].one_yr_res_per_dbu, v.dbu_per_hr, tenths[k])
                    /\ FacetDerived(h.three_yr_res_per_hr,
                                    v.dbu_prices[k].three_yr_res_per_dbu, v.dbu_per_hr, tenths[k])
                    /\ FacetDerived(h.spot_price_per_hr,
                                    v.dbu_prices[k].spot_price_per_dbu, v.dbu_per_hr, tenths[k])
                    /\ FacetDerived(h.price_per_hr,
                                    v.dbu_prices[k].price_per_dbu, v.dbu_per_hr, tenths[k])

\* C3: for a region outside the region list, whatever the instance name,
\* get_price ends with the assertion error, before anything else happens.
C3_InvalidRegionRaises ==
    (/\ caller = "get_price"
     /\ region \notin all_regions["azure"]
     /\ pc # "assert_region")
    => /\ pc = "done"
       /\ result = Outcome("AssertionError", None)

C3_Witness ==
    /\ caller = "get_price"
    /\ pc = "done"
    /\ region = "not-a-real-region"
    /\ vm_name = "Standard_D4_v3"
    /\ result.kind = "AssertionError"

\* C4: for a valid region and an instance name that is no key of the catalog,
\* get_price returns None and raises nothing.
C4_UnknownInstanceReturnsNone ==
    (/\ caller = "get_price"
     /\ region \in all_regions["azure"]
     /\ vm_name \notin DOMAIN azure_vms
     /\ pc \notin {"assert_region", "check_instance"})
    => /\ pc = "done"
       /\ result = Outcome("None", None)

C4_Witness ==
    /\ caller = "get_price"
    /\ pc = "done"
    /\ region = "westus"
    /\ vm_name = "nonexistent-vm-name"
    /\ result.kind = "None"

\* C5: the value get_azure_vm_price returns for a response equals the value it
\* returns for the same response with every "windows" product and every
\* "low priority" SKU removed: same four facets, same currency, same
\* available/unavailable outcome.
C5_FilteringInvariant ==
    Normalizer_returned => price = Normalized(SelectSeq(items, Survives))

\* a response that ends with a Windows item in another currency than the result
C5_Witness ==
    /\ Normalizer_returned
    /\ price # None
    /\ Len(items) >= 2
    /\ MentionsWindows(items[Len(items)])
    /\ ~MentionsLowPriority(items[Len(items)])
    /\ items[Len(items)].reservationTerm = None
    /\ Some(items[Len(items)].currencyCode) # price[1].currency_type

\* C6: a loop iteration on a surviving item with retail price P writes exactly
\* one facet: "1 Year" writes one-year round(P/8760, 4), else "3 Years" writes
\* three-year round(P/26280, 4), else a spot SKU writes spot round(P, 4), else
\* on-demand round(P, 4); the other three facets keep their values.
C6_ClassificationRule ==
    [][(/\ pc = "loop"
        /\ idx <= Len(items)
        /\ idx' = idx + 1
        /\ Survives(items[idx]))
       => LET i == items[idx]
          IN  IF i.reservationTerm = Some("1 Year")
                  THEN WritesOnly("one_yr_res_per_hr", i.retailPrice, 10 * 8760)
              ELSE IF i.reservationTerm = Some("3 Years")
                  THEN WritesOnly("three_yr_res_per_hr", i.retailPrice, 10 * 26280)
              ELSE IF MentionsSpot(i)
                  THEN WritesOnly("spot_price_per_hr", i.retailPrice, 10)
              ELSE WritesOnly("price_per_hr", i.retailPrice, 10)]_vars

\* the loop has just processed a reserved item with a spot SKU
C6_Witness ==
    /\ pc = "loop"
    /\ idx = 2
    /\ Survives(items[1])
    /\ MentionsSpot(items[1])
    /\ items[1].reservationTerm = Some("1 Year")
    /\ vm_price.one_yr_res_per_hr = Some(1142)
    /\ vm_price.spot_price_per_hr = None

\* C7: get_azure_vm_price returns a VMPrice exactly when a surviving item was
\* classified as on-demand, and None otherwise, also when other facets were
\* populated; it raises nothing, and a returned VMPrice has an on-demand price.
C7_AvailableIffOnDemand ==
    Normalizer_returned
    => /\ (price # None) <=>
            (\E k \in DOMAIN items :
                /\ Survives(items[k])
                /\ items[k].reservationTerm = None
                /\ ~MentionsSpot(items[k]))
       /\ price # None => price[1].price_per_hr # None
       /\ caller = "get_azure_vm_price"
            => result = Outcome(IF price = None THEN "None" ELSE "value", price)

\* unavailable although the spot and one-year facets were populated
C7_Witness ==
    /\ Normalizer_returned
    /\ caller = "get_azure_vm_price"
    /\ price = None
    /\ result.kind = "None"
    /\ vm_price.spot_price_per_hr # None
    /\ vm_price.one_yr_res_per_hr # None

\* C8: a populated result with DBU rate D and on-demand price P has exactly
\* three dbu_prices: base with round(P/D, 4), interactive with
\* round(P/(D*2.3), 4), jobs with round(P/(D*2.5), 4), each tagged with its tier.
C8_TierOrder ==
    (caller = "get_price" /\ result.kind = "value")
    => LET v == result.value[1]
           P == v.price[1].price_per_hr[1]
           D == azure_vms[vm_name].dbu_per_hr
       IN  /\ Len(v.dbu_prices) = 3
           /\ v.dbu_prices[1].sku = "PhotonSku.NO_PHOTON"
           /\ v.dbu_prices[2].sku = "PhotonSku.PHOTON_INTERACTIVE"
           /\ v.dbu_prices[3].sku = "PhotonSku.PHOTON_JOBS"
           /\ v.dbu_prices[1].price_per_dbu # None
           /\ v.dbu_prices[2].price_per_dbu # None
           /\ v.dbu_prices[3].price_per_dbu # None
           /\ IsNearest(v.dbu_prices[1].price_per_dbu[1], P * 40, D * 10)
           /\ IsNearest(v.dbu_prices[2].price_per_dbu[1], P * 40, D * 23)
           /\ IsNearest(v.dbu_prices[3].price_per_dbu[1], P * 40, D * 25)

\* 0.0938 per hour at 0.75 DBU: 0.1251, 0.0544, 0.0500
C8_Witness ==
    /\ caller = "get_price"
    /\ result.kind = "value"
    /\ vm_name = "Standard_D4_v3"
    /\ result.value[1].dbu_prices[1].price_per_dbu = Some(1251)
    /\ result.value[1].dbu_prices[2].price_per_dbu = Some(544)
    /\ result.value[1].dbu_prices[3].price_per_dbu = Some(500)

\* C9: in a populated result the region of the VMPrice and of every
\* VMPricePerDBU is the region get_price was called with.
C9_RegionIsRequested ==
    (caller = "get_price" /\ result.kind = "value")
    => LET v == result.value[1]
       IN  /\ v.price[1].region = region
           /\ \A k \in DOMAIN v.dbu_prices : v.dbu_prices[k].region = region

\* C10: get_price fetches at most once, only after the region was validated
\* and the instance found in the catalog; a call that ends in the assertion
\* error or in None for an unknown instance has fetched nothing.
C10_FetchAfterValidation ==
    caller = "get_price"
    => /\ fetches <= 1
       /\ fetches = 1 => /\ region \in all_regions["azure"]
                         /\ vm_name \in DOMAIN azure_vms
                         /\ pc \notin {"assert_region", "check_instance", "fetch"}
       /\ pc \in {"assert_region", "check_instance", "fetch"} => fetches = 0
       /\ result.kind = "AssertionError" => fetches = 0
       /\ (pc = "done" /\ vm_name \notin DOMAIN azure_vms) => fetches = 0

C10_Witness ==
    /\ caller = "get_price"
    /\ pc = "done"
    /\ fetches = 1
    /\ region = "westus"
    /\ result.kind = "value"

=============================================================================
